---- MODULE Spec2Model ----
(***************************************************************************)
(* Compute/render handshake of the OpenCL bouncing-balls simulation        *)
(* (src/main.cpp): BufferManager (two state buffers with read/write        *)
(* labels), BallSimulation::displayLoop on the main thread,                *)
(* BallSimulation::computeLoop on the compute thread, and the two          *)
(* condition-guarded flags computationComplete / displayComplete.          *)
(*                                                                         *)
(* A state buffer's content is abstracted to the record                    *)
(*   [steps |-> number of physics passes applied to the initial balls,     *)
(*    prepared |-> whether the preparation (clamp) pass was the last pass] *)
(* The kernels updateBallPhysics and prepareBallData live in .cl files     *)
(* that are not part of src/; their effect is taken from the               *)
(* specification (Integrate / Prepare).                                    *)
(***************************************************************************)
EXTENDS Integers, Sequences, FiniteSets, TLC

\* Number of frames after which the user has closed the window at the latest.
MaxGen == 3

Slots == {0, 1}

VARIABLES
    dpc,                  \* position of the main thread (startSimulation / displayLoop)
    cpc,                  \* position of the compute thread (computeLoop)
    computationComplete,  \* BallSimulation::computationComplete
    displayComplete,      \* BallSimulation::displayComplete
    windowShouldClose,    \* GLFW close flag of `window`, read by shouldStop()
    currentRead,          \* BufferManager::currentRead
    currentWrite,         \* BufferManager::currentWrite
    stateBuffers,         \* BufferManager::stateBuffers, contents per slot
    flagBuffer,           \* BallSimulation::flagBuffer content
    writeBuffer,          \* local of computeLoop: handle taken by getWriteBuffer()
    cGen,                 \* history: number of signalComputationComplete calls
    dGen,                 \* history: number of signalDisplayComplete calls
    rendered,             \* history: what each successful render() read
    passes,               \* history: passes run in the current compute iteration
    integrated,           \* history: slot the physics kernel wrote in this iteration
    errors,               \* history: threads in which a checkError has thrown
    swaps,                \* history: number of label exchanges done by swap()
    cAfterStop,           \* history: compute iterations begun with the close flag set
    dAfterStop            \* history: frames begun with the close flag set

vars == <<dpc, cpc, computationComplete, displayComplete, windowShouldClose,
          currentRead, currentWrite, stateBuffers, flagBuffer, writeBuffer,
          cGen, dGen, rendered, passes, integrated, errors,
          swaps, cAfterStop, dAfterStop>>

syncVars == <<computationComplete, displayComplete>>
storeVars == <<currentRead, currentWrite, stateBuffers>>
histVars == <<cGen, dGen, rendered, passes, integrated, errors>>
countVars == <<swaps, cAfterStop, dAfterStop>>

NoSlot == 2

\* initBalls: the initial array (initialBalls in the source).
initialBalls == [steps |-> 0, prepared |-> FALSE]

\* Content of a buffer created by clCreateBuffer and never written.
unwritten == [steps |-> 0 - 1, prepared |-> FALSE]

\* Variant: only the write buffer receives the initial array.
initBallsWriteBufferOnly(rd, wr) ==
    [s \in Slots |-> IF s = wr THEN initialBalls ELSE unwritten]

\* initBalls: two clEnqueueWriteBuffer calls, one per label.
initBalls(rd, wr) ==
    [s \in Slots |-> IF s \in {rd, wr} THEN initialBalls ELSE unwritten]

\* updateBallPhysics (gpu_kernel.cl): one in-place physics step.
Integrate(b) == [steps |-> b.steps + 1, prepared |-> FALSE]

\* prepareBallData (cpu_kernel.cl): clamp into the window; idempotent.
Prepare(b) == [b EXCEPT !.prepared = TRUE]

\* BufferManager::getReadBuffer / getWriteBuffer: the slot behind each label.
getReadBuffer == currentRead
getWriteBuffer == currentWrite

\* Variant: the loops never look at the close flag.
shouldStopNever == FALSE

\* BallSimulation::shouldStop
shouldStop == windowShouldClose

\* Variant: waitForComputation waits on the wrong flag.
waitForComputationPredWrongFlag == displayComplete

\* Predicate of computeCV.wait in waitForComputation.
waitForComputationPred == computationComplete

\* Variant: waitForDisplay returns on any wake-up, without a predicate.
waitForDisplayPredNone == TRUE

\* Predicate of displayCV.wait in waitForDisplay.
waitForDisplayPred == displayComplete

\* Variant: an assignment without a temporary, both labels end on one slot.
swapIndicesBothWrite(r, w) == <<w, w>>

\* Variant: the labels are left as they were.
swapIndicesNoExchange(r, w) == <<r, w>>

\* std::swap(currentRead, currentWrite) inside BufferManager::swap
swapIndices(r, w) == <<w, r>>

\* Variant: the constructor starts with both flags set.
InitBothComplete ==
    /\ dpc = "start"
    /\ cpc = "unborn"
    /\ computationComplete = TRUE
    /\ displayComplete = TRUE
    /\ windowShouldClose = FALSE
    /\ currentRead = 0
    /\ currentWrite = 1
    /\ stateBuffers = initBalls(0, 1)
    /\ flagBuffer = "uninit"
    /\ writeBuffer = NoSlot
    /\ cGen = 0
    /\ dGen = 0
    /\ rendered = <<>>
    /\ passes = <<>>
    /\ integrated = NoSlot
    /\ errors = {}
    /\ swaps = 0
    /\ cAfterStop = 0
    /\ dAfterStop = 0

\* Variant: the constructor starts with displayComplete cleared.
InitDisplayPending ==
    /\ dpc = "start"
    /\ cpc = "unborn"
    /\ computationComplete = FALSE
    /\ displayComplete = FALSE
    /\ windowShouldClose = FALSE
    /\ currentRead = 0
    /\ currentWrite = 1
    /\ stateBuffers = initBalls(0, 1)
    /\ flagBuffer = "uninit"
    /\ writeBuffer = NoSlot
    /\ cGen = 0
    /\ dGen = 0
    /\ rendered = <<>>
    /\ passes = <<>>
    /\ integrated = NoSlot
    /\ errors = {}
    /\ swaps = 0
    /\ cAfterStop = 0
    /\ dAfterStop = 0

\* State after BallSimulation's constructor (flags, BufferManager, initBalls).
Init ==
    /\ dpc = "start"
    /\ cpc = "unborn"
    /\ computationComplete = FALSE
    /\ displayComplete = TRUE
    /\ windowShouldClose = FALSE
    /\ currentRead = 0
    /\ currentWrite = 1
    /\ stateBuffers = initBalls(0, 1)
    /\ flagBuffer = "uninit"
    /\ writeBuffer = NoSlot
    /\ cGen = 0
    /\ dGen = 0
    /\ rendered = <<>>
    /\ passes = <<>>
    /\ integrated = NoSlot
    /\ errors = {}
    /\ swaps = 0
    /\ cAfterStop = 0
    /\ dAfterStop = 0

\* startSimulation: launch the compute thread, enter displayLoop.
startSimulation ==
    /\ dpc = "start"
    /\ dpc' = "top"
    /\ cpc' = "top"
    /\ UNCHANGED <<syncVars, windowShouldClose, storeVars, flagBuffer,
                   writeBuffer, histVars,
                   countVars>>

(***************************************************************************)
(* displayLoop (main thread)                                               *)
(***************************************************************************)
displayLoopTop ==
    /\ dpc = "top"
    /\ dpc' = IF shouldStop THEN "join" ELSE "wait"
    /\ UNCHANGED <<cpc, syncVars, windowShouldClose, storeVars, flagBuffer,
                   writeBuffer, histVars,
                   countVars>>

\* Variant: the wait returns without clearing computationComplete.
waitForComputationNoReset ==
    /\ dpc = "wait"
    /\ waitForComputationPred
    /\ dpc' = "render"
    /\ dAfterStop' = IF windowShouldClose THEN dAfterStop + 1 ELSE dAfterStop
    /\ UNCHANGED <<cpc, syncVars, windowShouldClose, storeVars,
                   flagBuffer, writeBuffer, histVars, swaps, cAfterStop>>

waitForComputation ==
    /\ dpc = "wait"
    /\ waitForComputationPred
    /\ computationComplete' = FALSE
    /\ dpc' = "render"
    /\ dAfterStop' = IF windowShouldClose THEN dAfterStop + 1 ELSE dAfterStop
    /\ UNCHANGED <<cpc, displayComplete, windowShouldClose, storeVars,
                   flagBuffer, writeBuffer, histVars, swaps, cAfterStop>>

\* render: blocking read of the read buffer; checkError may throw.
render ==
    /\ dpc = "render"
    /\ \E ok \in BOOLEAN :
         IF ok
         THEN /\ rendered' = Append(rendered,
                     [slot |-> getReadBuffer,
                      steps |-> stateBuffers[getReadBuffer].steps,
                      gen |-> cGen])
              /\ errors' = errors
              /\ dpc' = "poll"
         ELSE /\ rendered' = rendered
              /\ errors' = errors \cup {"display"}
              /\ dpc' = "catch"
    /\ UNCHANGED <<cpc, syncVars, windowShouldClose, storeVars, flagBuffer,
                   writeBuffer, cGen, dGen, passes, integrated,
                   countVars>>

\* glfwPollEvents: the user may close the window; by frame MaxGen they have.
glfwPollEvents ==
    /\ dpc = "poll"
    /\ \E close \in BOOLEAN :
         /\ (dGen + 1 >= MaxGen) => close
         /\ windowShouldClose' = (windowShouldClose \/ close)
    /\ dpc' = "signal"
    /\ UNCHANGED <<cpc, syncVars, storeVars, flagBuffer, writeBuffer, histVars,
                   countVars>>

\* Variant: the signal is posted without setting displayComplete.
signalDisplayCompleteNoSet ==
    /\ dpc = "signal"
    /\ dGen' = dGen + 1
    /\ dpc' = "top"
    /\ UNCHANGED <<cpc, syncVars, windowShouldClose, storeVars,
                   flagBuffer, writeBuffer, cGen, rendered, passes, integrated,
                   errors, countVars>>

signalDisplayComplete ==
    /\ dpc = "signal"
    /\ displayComplete' = TRUE
    /\ dGen' = dGen + 1
    /\ dpc' = "top"
    /\ UNCHANGED <<cpc, computationComplete, windowShouldClose, storeVars,
                   flagBuffer, writeBuffer, cGen, rendered, passes, integrated,
                   errors,
                   countVars>>

\* catch block of displayLoop: glfwSetWindowShouldClose, then the loop is left.
displayCatch ==
    /\ dpc = "catch"
    /\ windowShouldClose' = TRUE
    /\ dpc' = "join"
    /\ UNCHANGED <<cpc, syncVars, storeVars, flagBuffer, writeBuffer, histVars,
                   countVars>>

\* Variant: startSimulation returns without joining the compute thread.
joinComputeThreadDetached ==
    /\ dpc = "join"
    /\ dpc' = "returned"
    /\ UNCHANGED <<cpc, syncVars, windowShouldClose, storeVars, flagBuffer,
                   writeBuffer, histVars, countVars>>

\* computeThread.join() in startSimulation
joinComputeThread ==
    /\ dpc = "join"
    /\ cpc = "done"
    /\ dpc' = "returned"
    /\ UNCHANGED <<cpc, syncVars, windowShouldClose, storeVars, flagBuffer,
                   writeBuffer, histVars,
                   countVars>>

(***************************************************************************)
(* computeLoop (compute thread)                                            *)
(***************************************************************************)
computeLoopTop ==
    /\ cpc = "top"
    /\ cpc' = IF shouldStop THEN "done" ELSE "wait"
    /\ UNCHANGED <<dpc, syncVars, windowShouldClose, storeVars, flagBuffer,
                   writeBuffer, histVars,
                   countVars>>

waitForDisplay ==
    /\ cpc = "wait"
    /\ waitForDisplayPred
    /\ displayComplete' = FALSE
    /\ cpc' = "getw"
    /\ passes' = <<>>
    /\ integrated' = NoSlot
    /\ cAfterStop' = IF windowShouldClose THEN cAfterStop + 1 ELSE cAfterStop
    /\ UNCHANGED <<dpc, computationComplete, windowShouldClose, storeVars,
                   flagBuffer, writeBuffer, cGen, dGen, rendered, errors,
                   swaps, dAfterStop>>

\* cl_mem writeBuffer = bufferManager->getWriteBuffer();
getWriteBufferOnce ==
    /\ cpc = "getw"
    /\ writeBuffer' = getWriteBuffer
    /\ cpc' = "gpu"
    /\ UNCHANGED <<dpc, syncVars, windowShouldClose, storeVars, flagBuffer,
                   histVars,
                   countVars>>

\* Places where runGPUKernel can throw through checkError.
GPUFail == {"none", "clearFlag", "beforeKernel", "afterKernel"}

\* Variant: the labels are exchanged right after the physics kernel,
\* before runCPUKernel.
runGPUKernelThenSwap ==
    /\ cpc = "gpu"
    /\ \E fail \in GPUFail :
         LET stateBuf == getWriteBuffer
             ran == fail \in {"none", "afterKernel"}
         IN /\ flagBuffer' = IF fail = "clearFlag" THEN flagBuffer ELSE "zero"
            /\ stateBuffers' = IF ran
                               THEN [stateBuffers EXCEPT
                                       ![stateBuf] = Integrate(stateBuffers[stateBuf])]
                               ELSE stateBuffers
            /\ currentRead' = IF fail = "none" THEN currentWrite ELSE currentRead
            /\ currentWrite' = IF fail = "none" THEN currentRead ELSE currentWrite
            /\ passes' = IF ran THEN Append(passes, "Integrate") ELSE passes
            /\ integrated' = IF ran THEN stateBuf ELSE integrated
            /\ errors' = IF fail = "none" THEN errors ELSE errors \cup {"compute"}
            /\ cpc' = IF fail = "none" THEN "cpu" ELSE "catch"
    /\ UNCHANGED <<dpc, syncVars, windowShouldClose,
                   writeBuffer, cGen, dGen, rendered,
                   countVars>>

runGPUKernel ==
    /\ cpc = "gpu"
    /\ \E fail \in GPUFail :
         LET stateBuf == getWriteBuffer
             ran == fail \in {"none", "afterKernel"}
         IN /\ flagBuffer' = IF fail = "clearFlag" THEN flagBuffer ELSE "zero"
            /\ stateBuffers' = IF ran
                               THEN [stateBuffers EXCEPT
                                       ![stateBuf] = Integrate(stateBuffers[stateBuf])]
                               ELSE stateBuffers
            /\ passes' = IF ran THEN Append(passes, "Integrate") ELSE passes
            /\ integrated' = IF ran THEN stateBuf ELSE integrated
            /\ errors' = IF fail = "none" THEN errors ELSE errors \cup {"compute"}
            /\ cpc' = IF fail = "none" THEN "cpu" ELSE "catch"
    /\ UNCHANGED <<dpc, syncVars, windowShouldClose, currentRead, currentWrite,
                   writeBuffer, cGen, dGen, rendered,
                   countVars>>

\* Places where runCPUKernel can throw through checkError.
CPUFail == {"none", "copy", "afterCopy", "afterKernel"}

\* Variant: runCPUKernel without the clEnqueueCopyBuffer.
runCPUKernelNoCopy ==
    /\ cpc = "cpu"
    /\ \E fail \in CPUFail :
         LET readBuf == getReadBuffer
             writeBuf == getWriteBuffer
             ran == fail \in {"none", "afterKernel"}
         IN /\ \E dst \in {readBuf, writeBuf} :
                 stateBuffers' = IF ran
                                 THEN [stateBuffers EXCEPT
                                         ![dst] = Prepare(stateBuffers[dst])]
                                 ELSE stateBuffers
            /\ passes' = IF ran THEN Append(passes, "Prepare") ELSE passes
            /\ errors' = IF fail = "none" THEN errors ELSE errors \cup {"compute"}
            /\ cpc' = IF fail = "none" THEN "swap" ELSE "catch"
    /\ UNCHANGED <<dpc, syncVars, windowShouldClose, currentRead, currentWrite,
                   flagBuffer, writeBuffer, cGen, dGen, rendered, integrated,
                   countVars>>

runCPUKernel ==
    /\ cpc = "cpu"
    /\ \E fail \in CPUFail :
         LET readBuf == getReadBuffer
             writeBuf == getWriteBuffer
             copied == [stateBuffers EXCEPT ![readBuf] = stateBuffers[writeBuf]]
             ran == fail \in {"none", "afterKernel"}
         IN /\ \E dst \in {readBuf, writeBuf} :
                 stateBuffers' = IF fail = "copy" THEN stateBuffers
                                 ELSE IF ran
                                      THEN [copied EXCEPT ![dst] = Prepare(copied[dst])]
                                      ELSE copied
            /\ passes' = IF ran THEN Append(passes, "Prepare") ELSE passes
            /\ errors' = IF fail = "none" THEN errors ELSE errors \cup {"compute"}
            /\ cpc' = IF fail = "none" THEN "swap" ELSE "catch"
    /\ UNCHANGED <<dpc, syncVars, windowShouldClose, currentRead, currentWrite,
                   flagBuffer, writeBuffer, cGen, dGen, rendered, integrated,
                   countVars>>

\* Places where BufferManager::swap can throw through checkError.
SwapFail == {"none", "before", "after"}

\* Variant: a "swap" that copies the write buffer over the read buffer.
swapByCopy ==
    /\ cpc = "swap"
    /\ \E fail \in SwapFail :
         /\ stateBuffers' = IF fail = "before" THEN stateBuffers
                            ELSE [stateBuffers EXCEPT
                                    ![currentRead] = stateBuffers[currentWrite]]
         /\ swaps' = IF fail = "before" THEN swaps ELSE swaps + 1
         /\ errors' = IF fail = "none" THEN errors ELSE errors \cup {"compute"}
         /\ cpc' = IF fail = "none" THEN "signal" ELSE "catch"
    /\ UNCHANGED <<dpc, syncVars, windowShouldClose, currentRead, currentWrite,
                   flagBuffer, writeBuffer, cGen, dGen, rendered, passes,
                   integrated, cAfterStop, dAfterStop>>

swap ==
    /\ cpc = "swap"
    /\ \E fail \in SwapFail :
         LET labels == IF fail = "before" THEN <<currentRead, currentWrite>>
                       ELSE swapIndices(currentRead, currentWrite)
         IN /\ currentRead' = labels[1]
            /\ currentWrite' = labels[2]
            /\ swaps' = IF fail = "before" THEN swaps ELSE swaps + 1
            /\ errors' = IF fail = "none" THEN errors ELSE errors \cup {"compute"}
            /\ cpc' = IF fail = "none" THEN "signal" ELSE "catch"
    /\ UNCHANGED <<dpc, syncVars, windowShouldClose, stateBuffers, flagBuffer,
                   writeBuffer, cGen, dGen, rendered, passes, integrated,
                   cAfterStop, dAfterStop>>

signalComputationComplete ==
    /\ cpc = "signal"
    /\ computationComplete' = TRUE
    /\ cGen' = cGen + 1
    /\ cpc' = "top"
    /\ UNCHANGED <<dpc, displayComplete, windowShouldClose, storeVars,
                   flagBuffer, writeBuffer, dGen, rendered, passes, integrated,
                   errors,
                   countVars>>

\* Variant: the catch block also posts computationComplete.
computeCatchSignals ==
    /\ cpc = "catch"
    /\ windowShouldClose' = TRUE
    /\ computationComplete' = TRUE
    /\ cpc' = "done"
    /\ UNCHANGED <<dpc, displayComplete, storeVars, flagBuffer, writeBuffer,
                   histVars, countVars>>

\* catch block of computeLoop: glfwSetWindowShouldClose, then the thread ends.
computeCatch ==
    /\ cpc = "catch"
    /\ windowShouldClose' = TRUE
    /\ cpc' = "done"
    /\ UNCHANGED <<dpc, syncVars, storeVars, flagBuffer, writeBuffer, histVars,
                   countVars>>

displayLoop ==
    \/ displayLoopTop
    \/ waitForComputation
    \/ render
    \/ glfwPollEvents
    \/ signalDisplayComplete
    \/ displayCatch

computeLoop ==
    \/ computeLoopTop
    \/ waitForDisplay
    \/ getWriteBufferOnce
    \/ runGPUKernel
    \/ runCPUKernel
    \/ swap
    \/ signalComputationComplete
    \/ computeCatch

Next ==
    \/ startSimulation
    \/ displayLoop
    \/ joinComputeThread
    \/ computeLoop

Spec == Init /\ [][Next]_vars

\* Both threads are scheduled by the operating system: each keeps running
\* while it has a step to take.
FairSpec ==
    /\ Spec
    /\ WF_vars(startSimulation \/ displayLoop \/ joinComputeThread)
    /\ WF_vars(computeLoop)

TypeOK ==
    /\ dpc \in {"start", "top", "wait", "render", "poll", "signal", "catch",
                "join", "returned"}
    /\ cpc \in {"unborn", "top", "wait", "getw", "gpu", "cpu", "swap",
                "signal", "catch", "done"}
    /\ computationComplete \in BOOLEAN
    /\ displayComplete \in BOOLEAN
    /\ windowShouldClose \in BOOLEAN
    /\ currentRead \in Slots
    /\ currentWrite \in Slots
    /\ flagBuffer \in {"uninit", "zero"}
    /\ writeBuffer \in Slots \cup {NoSlot}
    /\ cGen \in Nat
    /\ dGen \in Nat
    /\ errors \subseteq {"display", "compute"}
    /\ swaps \in Nat
    /\ cAfterStop \in Nat
    /\ dAfterStop \in Nat

(***************************************************************************)
(* Properties                                                              *)
(***************************************************************************)

\* Compute's turn: waitForDisplay has returned, signalComputationComplete
\* has not yet run.
ComputeTurn == cpc \in {"getw", "gpu", "cpu", "swap", "signal"}

\* Render's turn: waitForComputation has returned, signalDisplayComplete
\* has not yet run.
RenderTurn == dpc \in {"render", "poll", "signal"}

\* The passes computeLoop runs in one iteration, in the order it runs them.
PassesOfIteration == <<"Integrate", "Prepare">>

\* C1: Compute's turn and Render's turn are never both in progress.
C1_NoOverlap == ~(ComputeTurn /\ RenderTurn)

C1_Witness ==
    /\ dpc = "render"
    /\ cpc = "wait"
    /\ cGen = 2
    /\ errors = {}

\* C2: no step of Compute's turn changes the content of the slot that is
\* labelled read when the step is taken.
C2_ReadSlotNeverMutated ==
    [][ComputeTurn => stateBuffers'[currentRead] = stateBuffers[currentRead]]_vars

\* C3: compute-done signals minus render-done signals is 0 or 1, and during
\* Compute's turn every generation signaled so far has been signaled done by
\* Render.
C3_BoundedSlack ==
    /\ cGen - dGen \in {0, 1}
    /\ ComputeTurn => dGen = cGen

C3_Witness ==
    /\ cGen = 2
    /\ dGen = 1
    /\ cpc = "wait"
    /\ ~displayComplete
    /\ dpc = "poll"

\* C4 as stated: once startSimulation has returned from a run in which no
\* call failed, every generation signaled by Compute has been read by
\* exactly one render(), in order.
C4_EveryGenerationRendered ==
    (dpc = "returned" /\ errors = {}) =>
        /\ Len(rendered) = cGen
        /\ \A i \in 1..Len(rendered) : rendered[i].gen = i

\* C4 amended: the k-th successful render() reads generation k's slot with
\* generation k's data (in order, none twice, none skipped), and at most the
\* last generation signaled by Compute has not been rendered.
C4_InOrderAtMostLastUnrendered ==
    /\ \A i \in 1..Len(rendered) :
          /\ rendered[i].gen = i
          /\ rendered[i].steps = i
          /\ rendered[i].slot = i % 2
    /\ Len(rendered) <= cGen
    /\ cGen <= Len(rendered) + 1

C4_Witness ==
    /\ dpc = "returned"
    /\ errors = {}
    /\ Len(rendered) = 2
    /\ cGen = 3

\* C5: a stop request seen while displayLoop is blocked in waitForComputation
\* leads to startSimulation returning (both loops have exited).
C5_ShutdownLiveness ==
    (windowShouldClose /\ dpc = "wait") ~> (dpc = "returned")

\* C6: a loop that leaves for good has posted its completion signal: the
\* flag its peer waits on is set when it leaves.
C6_FinalWake ==
    [][ /\ (cpc # "done" /\ cpc' = "done") => computationComplete'
        /\ (dpc # "join" /\ dpc' = "join") => displayComplete' ]_vars

\* C7: with stop requested, a thread inside a wait can return from it.
C7_WaitReturnsOnStop ==
    /\ (dpc = "wait" /\ shouldStop) => ENABLED waitForComputation
    /\ (cpc = "wait" /\ shouldStop) => ENABLED waitForDisplay

\* C8: when swap() is called, and until compute-done is signaled, the passes
\* run in this iteration are Prepare, Integrate, Stats, in that order.
C8_ThreePassesInOrder ==
    cpc \in {"swap", "signal"} => passes = <<"Prepare", "Integrate", "Stats">>

\* C9: the labels change only in swap(), called after the iteration's passes
\* and before compute-done is signaled; from then until the next Compute
\* turn the read slot is the slot integrated in this iteration and the write
\* slot is the other one, and that is the slot render() reads.
C9_ProtocolOrder ==
    /\ [](cpc = "signal" \/ computationComplete \/ RenderTurn =>
            /\ currentRead = integrated
            /\ currentWrite = 1 - integrated)
    /\ [](dpc \in {"poll", "signal"} =>
            rendered[Len(rendered)].slot = integrated)
    /\ [][currentRead' # currentRead =>
            /\ cpc = "swap"
            /\ passes = PassesOfIteration
            /\ currentRead = 1 - integrated
            /\ ~computationComplete /\ ~computationComplete']_vars
    /\ [][cGen' # cGen => cpc = "signal" /\ currentRead = integrated]_vars

C9_Witness ==
    /\ dpc = "poll"
    /\ cGen = 2
    /\ integrated = 0
    /\ currentRead = 0
    /\ rendered[2].slot = 0

\* C10: swap() is only called with the iteration's passes finished and
\* Render outside its turn.
C10_SwapPrecondition ==
    [][(cpc = "swap" /\ cpc' # "swap") =>
          /\ passes = PassesOfIteration
          /\ ~RenderTurn]_vars

C10_Witness ==
    /\ cpc = "signal"
    /\ cGen = 1
    /\ dGen = 1
    /\ dpc = "wait"
    /\ currentRead = 0

\* C11: the two labels are distinct indices of the two buffers.
C11_LabelsDistinct ==
    /\ currentRead \in Slots
    /\ currentWrite \in Slots
    /\ currentRead # currentWrite

C11_Witness ==
    /\ swaps = 2
    /\ cpc = "cpu"
    /\ writeBuffer = 1
    /\ currentRead = 0
    /\ currentWrite = 1

\* C12: a call of swap() leaves the content of both buffers as it was and,
\* unless it fails before the exchange, exchanges the two labels; after an
\* even number of exchanges the labels are the constructor's again.
C12_SwapExchangesLabelsOnly ==
    /\ [][(cpc = "swap" /\ cpc' # "swap") =>
            /\ stateBuffers' = stateBuffers
            /\ swaps' = swaps =>
                 (currentRead' = currentRead /\ currentWrite' = currentWrite)
            /\ swaps' # swaps =>
                 (currentRead' = currentWrite /\ currentWrite' = currentRead)]_vars
    /\ [](currentRead = swaps % 2 /\ currentWrite = (swaps + 1) % 2)

C12_Witness ==
    /\ cpc = "signal"
    /\ swaps = 2
    /\ currentRead = 0
    /\ stateBuffers[0].steps = 2
    /\ stateBuffers[0] # stateBuffers[1]

\* C13: the constructor leaves displayComplete set and computationComplete
\* clear; Compute's first waitForDisplay never blocks, and until Compute has
\* signaled its first generation Render has read nothing and is not in its
\* turn.
C13_InitialHandshake ==
    /\ dpc = "start" => (displayComplete /\ ~computationComplete)
    /\ (cpc = "wait" /\ cGen = 0) => ENABLED waitForDisplay
    /\ cGen = 0 => (rendered = <<>> /\ ~RenderTurn /\ dGen = 0)

C13_Witness ==
    /\ cpc = "cpu"
    /\ cGen = 0
    /\ dGen = 0
    /\ dpc = "wait"
    /\ rendered = <<>>

\* C14: with the handle taken at the top of the iteration still held,
\* runGPUKernel's own getWriteBuffer is refused: the call throws and no
\* buffer is written.
C14_SecondAcquireWriteFails ==
    [][(cpc = "gpu" /\ cpc' # "gpu" /\ writeBuffer = getWriteBuffer) =>
          (cpc' = "catch" /\ stateBuffers' = stateBuffers)]_vars

\* C15: startSimulation has returned only if displayLoop and the compute
\* thread have ended; the labels and buffer contents change only in steps of
\* the compute thread inside its turn, and buffers are read for drawing only
\* by render() on the main thread.
C15_ReturnsAfterBothLoops ==
    /\ [](dpc = "returned" => cpc = "done")
    /\ [][storeVars' # storeVars => (ComputeTurn /\ cpc' # cpc /\ dpc' = dpc)]_vars
    /\ [][rendered' # rendered => (dpc = "render" /\ dpc' = "poll" /\ cpc' = cpc)]_vars
    /\ [][dpc = "returned" => dpc' = "returned"]_vars

C15_Witness ==
    /\ dpc = "returned"
    /\ cpc = "done"
    /\ cGen = 2
    /\ Len(rendered) = 2

\* C16: until the first physics pass has run, both buffers hold the initial
\* array, so the read buffer yields the initial state.
C16_InitialSlotsIdentical ==
    (cGen = 0 /\ passes = <<>>) =>
        /\ stateBuffers[currentRead] = initialBalls
        /\ stateBuffers[currentWrite] = initialBalls

C16_Witness ==
    /\ dpc = "wait"
    /\ cpc = "gpu"
    /\ cGen = 0
    /\ stateBuffers[getReadBuffer] = initialBalls

\* C17: an iteration of computeLoop starts with as many exchanges as
\* signals, reaches its signal with exactly one more exchange, and the signal
\* raises the generation count by one; between iterations the read label is
\* the generation count modulo 2.
C17_OneSwapOneSignalPerCycle ==
    /\ [](cpc \in {"top", "wait", "getw", "gpu", "cpu", "swap"} => swaps = cGen)
    /\ [](cpc = "signal" => swaps = cGen + 1)
    /\ [](cpc \in {"top", "wait"} => currentRead = cGen % 2)
    /\ [][cGen' # cGen =>
            (cGen' = cGen + 1 /\ cpc = "signal" /\ cpc' = "top"
             /\ computationComplete')]_vars

C17_Witness ==
    /\ cpc = "wait"
    /\ cGen = 2
    /\ swaps = 2
    /\ currentRead = 0
    /\ errors = {}

\* C18: the close flag stays set once set; each loop begins at most one
\* iteration with the flag set, and a loop that is at its top-of-loop check
\* with the flag set leaves instead of starting another iteration.
C18_BoundedShutdown ==
    /\ [](cAfterStop <= 1 /\ dAfterStop <= 1)
    /\ [][windowShouldClose => windowShouldClose']_vars
    /\ [][(windowShouldClose /\ cpc = "top" /\ cpc' # "top") => cpc' = "done"]_vars
    /\ [][(windowShouldClose /\ dpc = "top" /\ dpc' # "top") => dpc' = "join"]_vars

C18_Witness ==
    /\ cAfterStop = 1
    /\ cpc = "done"
    /\ dpc = "returned"
    /\ errors = {}

\* C19: at most one flag is set, and exactly one of: displayComplete set,
\* Compute in its turn, computationComplete set, Render in its turn.
C19_TokenInvariant ==
    /\ ~(computationComplete /\ displayComplete)
    /\ Cardinality({i \in 1..4 :
            \/ i = 1 /\ displayComplete
            \/ i = 2 /\ ComputeTurn
            \/ i = 3 /\ computationComplete
            \/ i = 4 /\ RenderTurn}) = 1

\* C20: in a run where nothing throws and the window is not closed before
\* frame g, generation g is eventually computed and rendered (g up to the
\* frame at which the window is closed at the latest).
C20_SteadyProgress ==
    \A g \in 1..MaxGen :
        <>( \/ errors # {}
            \/ windowShouldClose /\ Len(rendered) < g
            \/ cGen >= g /\ Len(rendered) >= g )

C20_Witness ==
    /\ errors = {}
    /\ ~windowShouldClose
    /\ dpc = "poll"
    /\ Len(rendered) = 2
    /\ cGen = 2

\* C21: the labels change only in the compute thread's swap() step, the
\* last step of its turn before the signal; until then the handle taken at
\* the top of the iteration and the buffer the physics kernel wrote are the
\* write slot, and the slot render() read is still the read slot until
\* Render has signaled.
C21_LabelStability ==
    /\ [][(currentRead' # currentRead \/ currentWrite' # currentWrite) =>
            (cpc = "swap" /\ cpc' \in {"signal", "catch"} /\ dpc' = dpc)]_vars
    /\ [](cpc \in {"gpu", "cpu", "swap"} => writeBuffer = currentWrite)
    /\ [](cpc \in {"cpu", "swap"} => integrated = currentWrite)
    /\ [](dpc \in {"poll", "signal"} =>
            rendered[Len(rendered)].slot = currentRead)

C21_Witness ==
    /\ cpc = "swap"
    /\ cGen = 1
    /\ writeBuffer = 0
    /\ integrated = 0
    /\ currentWrite = 0
    /\ Len(rendered) = 1
    /\ rendered[1].slot = 1

\* C22: between iterations the write slot holds the state of the last
\* generation signaled, the physics pass advances it by one step, and when
\* Compute is about to signal generation g the slot that has become the
\* write slot holds generation g's state.
C22_StateContinuity ==
    /\ cpc \in {"top", "wait", "getw", "gpu"} =>
          stateBuffers[currentWrite].steps = cGen
    /\ cpc \in {"cpu", "swap"} => stateBuffers[currentWrite].steps = cGen + 1
    /\ cpc = "signal" => stateBuffers[currentWrite].steps = cGen + 1

C22_Witness ==
    /\ cpc = "signal"
    /\ cGen = 1
    /\ currentWrite = 1
    /\ stateBuffers[1].steps = 2
    /\ errors = {}

\* C23: once a call of the compute iteration has thrown, no compute-done is
\* signaled any more and render() reads nothing any more; everything
\* render() has read is the state of a generation that was signaled.
C23_FailedGenerationNotPublished ==
    /\ [][("compute" \in errors) =>
            (cGen' = cGen /\ rendered' = rendered /\ ~computationComplete')]_vars
    /\ [](("compute" \in errors) => ~RenderTurn)
    /\ [](\A i \in 1..Len(rendered) : rendered[i].steps <= cGen)

C23_Witness ==
    /\ "compute" \in errors
    /\ cpc = "done"
    /\ dpc = "wait"
    /\ cGen = 1
    /\ Len(rendered) = 1
    /\ stateBuffers[currentRead].steps = 2

====
